---- MODULE Spec2Model ----
(***************************************************************************)
(* A model of wb_to_netcdf.py: main's paging loop over the WindBorne API,  *)
(* the grouping of observations by mission, output_data's bucketing of one *)
(* mission's observations, and the file name convert_to_netcdf writes to.  *)
(* Times are epoch seconds, as in the program.                             *)
(***************************************************************************)
EXTENDS Integers, Sequences, FiniteSets, TLC

VARIABLES
    pc,                       \* position in main: "fetch", "missions", "scan", "done", "aborted", "crashed"
    starttime, endtime,       \* parsed from args.times
    bucket_hours,             \* args.bucket_hours, a fraction <<numerator, denominator>> of hours
    observations_by_mission,  \* the dict, in insertion order: a sequence of [key, value]
    accumulated_observations, \* main's flat list, rebound to each group by the final for loop
    has_next_page, next_page, \* the paging loop's locals
    mission_idx,              \* position of the final for loop in observations_by_mission.items()
    curtime, start_index, i,  \* output_data's locals
    calls,                    \* the calls made to convert_to_netcdf, in order
    files,                    \* the files on disk: output_file -> the data last written to it
    diag,                     \* how often each diagnostic was printed
    requests,                 \* the URLs passed to wb_get_request, in order
    responses                 \* the pages the API answered with, in order

vars == <<pc, starttime, endtime, bucket_hours, observations_by_mission,
          accumulated_observations, has_next_page, next_page, mission_idx,
          curtime, start_index, i, calls, files, diag, requests, responses>>

\* ---------------------------------------------------------------- bounds

MaxPages == 2        \* the API serves at most this many pages
MaxObs == 3          \* the API holds at most this many observations in the time range
MaxHalfHours == 4    \* near timestamps are 0, 1800, ... MaxHalfHours * 1800
MaxBucketObs == 3    \* longest single-mission list the bucketing specification starts from

\* ---------------------------------------------------------------- inputs

Absent == <<>>       \* the mission_name of an observation that has no such key

\* mission names, as sequences of characters
W1594 == <<"W", "-", "1", "5", "9", "4">>
W1595 == <<"W", "-", "1", "5", "9", "5">>
W15941 == <<"W", "-", "1", "5", "9", "4", "1">>

\* bucket_hours values: 0.5, 1, 24 and 36 hours
BucketHoursChoices == { <<1, 2>>, <<1, 1>>, <<24, 1>>, <<36, 1>> }
MainBucketHours == { <<1, 2>>, <<24, 1>> }

StartTimes == { 0, 3600 }
MainStartTimes == { 0 }
EndTime == 10 * 24 * 60 * 60

NearTimestamps == { h * 1800 : h \in 0..MaxHalfHours }
FarTimestamps == { 100, 90000, 180100 }
Timestamps == NearTimestamps \cup FarTimestamps

\* ---------------------------------------------------------------- helpers

Min(a, b) == IF a < b THEN a ELSE b

Range(s) == { s[k] : k \in 1..Len(s) }

RECURSIVE Concat(_)
Concat(ss) == IF ss = <<>> THEN <<>> ELSE Head(ss) \o Concat(Tail(ss))

\* Python's s[a:b] for 0 <= a <= b
Slice(s, a, b) == SubSeq(s, a + 1, Min(b, Len(s)))

\* list.sort(key=lambda x: x['timestamp']): stable, ascending
RECURSIVE InsertByTimestamp(_, _)
InsertByTimestamp(sorted, o) ==
    IF sorted = <<>> THEN <<o>>
    ELSE IF sorted[Len(sorted)].timestamp <= o.timestamp THEN Append(sorted, o)
    ELSE Append(InsertByTimestamp(SubSeq(sorted, 1, Len(sorted) - 1), o), sorted[Len(sorted)])

RECURSIVE SortByTimestamp(_)
SortByTimestamp(l) ==
    IF l = <<>> THEN <<>>
    ELSE InsertByTimestamp(SortByTimestamp(SubSeq(l, 1, Len(l) - 1)), l[Len(l)])

\* bucket_hours * 60 * 60
BucketSeconds(bh) == (bh[1] * 60 * 60) \div bh[2]

\* datetime.timedelta(hours=bucket_hours).seconds: the seconds field of the
\* normalised (days, seconds, microseconds) triple, 0 <= seconds < 24*60*60
TimedeltaSeconds(bh) == BucketSeconds(bh) % (24 * 60 * 60)

\* earliest_time - earliest_time % (bucket_hours * 60 * 60)
AlignedStart(earliest_time, bh) == earliest_time - (earliest_time % BucketSeconds(bh))

\* the test of the scan loop
CrossesBucket(timestamp, cur, bh) == timestamp - cur > BucketSeconds(bh)

\* datetime.fromtimestamp(curtime, tz=utc).strftime('%Y%m%d%H%M%S'):
\* the fields <<year, month, day, hour, minute, second>> of the civil UTC date
CivilFromDays(days) ==
    LET z == days + 719468
        era == z \div 146097
        doe == z - era * 146097
        yoe == (doe - doe \div 1460 + doe \div 36524 - doe \div 146096) \div 365
        doy == doe - (365 * yoe + yoe \div 4 - yoe \div 100)
        mp == (5 * doy + 2) \div 153
        d == doy - (153 * mp + 2) \div 5 + 1
        m == IF mp < 10 THEN mp + 3 ELSE mp - 9
        y == yoe + era * 400 + (IF m <= 2 THEN 1 ELSE 0)
    IN <<y, m, d>>

OutDateString(t) ==
    LET sod == t % (24 * 60 * 60)
    IN CivilFromDays(t \div (24 * 60 * 60))
         \o <<sod \div 3600, (sod % 3600) \div 60, sod % 60>>

\* 'WindBorne_W-{}_{}Z.nc'.format(mission_name[2:6], outdatestring), where
\* mission_name is re-read from the first row of the data
OutputFile(data, cur) ==
    <<"WindBorne_W-", Slice(data[1].mission_name, 2, 6), "_", OutDateString(cur), "Z.nc">>

\* ---------------------------------------------------------------- the dict

Keys(d) == { d[k].key : k \in 1..Len(d) }

IndexOf(d, key) == CHOOSE k \in 1..Len(d) : d[k].key = key

\* Accumulate without the `continue` of line 221: an observation without a
\* mission_name is grouped under the absent name
AccumulateUnnamed(d, o) ==
    LET d1 == IF o.mission_name \notin Keys(d)
              THEN Append(d, [key |-> o.mission_name, value |-> <<>>])
              ELSE d
        k == IndexOf(d1, o.mission_name)
    IN [d1 EXCEPT ![k].value = Append(@, o)]

\* Accumulate with the append of line 225 in an else branch: the observation
\* that creates a group is not appended to it
AccumulateElse(d, o) ==
    IF o.mission_name = Absent THEN d
    ELSE IF o.mission_name \notin Keys(d)
    THEN Append(d, [key |-> o.mission_name, value |-> <<>>])
    ELSE [d EXCEPT ![IndexOf(d, o.mission_name)].value = Append(@, o)]

\* lines 219-226: the body of the accumulation loop for one observation
Accumulate(d, o) ==
    IF o.mission_name = Absent THEN d
    ELSE LET d1 == IF o.mission_name \notin Keys(d)
                   THEN Append(d, [key |-> o.mission_name, value |-> <<>>])
                   ELSE d
             k == IndexOf(d1, o.mission_name)
         IN [d1 EXCEPT ![k].value = Append(@, o)]

RECURSIVE AccumulatePage(_, _)
AccumulatePage(d, page) ==
    IF page = <<>> THEN d
    ELSE AccumulatePage(Accumulate(d, Head(page)), Tail(page))

Named(page) == SelectSeq(page, LAMBDA o : o.mission_name # Absent)

\* ---------------------------------------------------------------- URLs and pages

Null == <<>>

BaseLink == <<"super_observations.json">>

Cursor(n) == <<"next_page", n>>

\* line 204: the first URL
FirstUrl(st, et) ==
    [link |-> BaseLink,
     query |-> << <<"min_time", st>>, <<"max_time", et>>, <<"include_mission_name", 1>> >>]

\* NextPageUrl with the page's next_page followed as it is
NextPageUrlBare(link, st, et) ==
    [link |-> link, query |-> << <<"include_mission_name", 1>> >>]

\* line 216: the page's next_page with the parameters appended again
NextPageUrl(link, st, et) ==
    [link |-> link,
     query |-> << <<"include_mission_name", 1>>, <<"min_time", st>>, <<"max_time", et>> >>]

\* line 206: the condition of the paging loop
WhileCondition(hnp) == hnp

\* NoMissions with a comparison that never holds
NoMissionsNever(d) == Len(d) < 0

\* line 231: the test for an empty result
NoMissions(d) == Len(d) = 0

\* every observation the API has answered with so far, in arrival order
Fetched == Concat([k \in 1..Len(responses) |-> responses[k].observations])

\* the observations the API may serve, before they are numbered
MainObservations ==
    { [mission_name |-> W1594, timestamp |-> 0],
      [mission_name |-> W1594, timestamp |-> 7200],
      [mission_name |-> W1595, timestamp |-> 7200],
      [mission_name |-> W15941, timestamp |-> 0],
      [mission_name |-> Absent, timestamp |-> 0] }

\* the pages the API may answer with when `before` observations were served already
PagesAfter(before, served) ==
    { [observations |-> [k \in 1..Len(content) |->
                           [mission_name |-> content[k].mission_name,
                            timestamp |-> content[k].timestamp,
                            id |-> before + k]],
       has_next_page |-> more,
       next_page |-> IF more THEN Cursor(served + 1) ELSE Null] :
      content \in UNION { [1..n -> MainObservations] : n \in 0..(MaxObs - before) },
      more \in BOOLEAN }

ZeroDiag == [empty_page |-> 0, no_mission_name |-> 0, before_starttime |-> 0, no_observations |-> 0]

\* ---------------------------------------------------------------- main

Init ==
    /\ pc = "fetch"
    /\ starttime \in MainStartTimes
    /\ endtime = EndTime
    /\ bucket_hours \in MainBucketHours
    /\ observations_by_mission = <<>>
    /\ accumulated_observations = <<>>
    /\ has_next_page = TRUE
    /\ next_page = FirstUrl(starttime, endtime)
    /\ mission_idx = 0
    /\ curtime = 0
    /\ start_index = 0
    /\ i = 0
    /\ calls = <<>>
    /\ files = <<>>
    /\ diag = ZeroDiag
    /\ requests = <<>>
    /\ responses = <<>>

\* lines 206-226: one iteration of the paging loop, the request answered with a page
FetchPage ==
    /\ pc = "fetch"
    /\ WhileCondition(has_next_page)
    /\ \E page \in PagesAfter(Len(Fetched), Len(responses)) :
        /\ (Len(responses) + 1 >= MaxPages => ~page.has_next_page)
        /\ requests' = Append(requests, next_page)
        /\ responses' = Append(responses, page)
        /\ has_next_page' = page.has_next_page
        /\ next_page' = IF page.has_next_page
                        THEN NextPageUrl(page.next_page, starttime, endtime)
                        ELSE next_page
        /\ diag' = [diag EXCEPT
                      !.empty_page = @ + (IF Len(page.observations) = 0 THEN 1 ELSE 0),
                      !.no_mission_name = @ + Len(page.observations) - Len(Named(page.observations))]
        /\ observations_by_mission' = AccumulatePage(observations_by_mission, page.observations)
        /\ accumulated_observations' = accumulated_observations \o Named(page.observations)
    /\ UNCHANGED <<pc, starttime, endtime, bucket_hours, mission_idx, curtime, start_index, i,
                   calls, files>>

\* RaiseForStatus with the error caught and the paging loop left by a break
RaiseForStatusSwallowed ==
    /\ pc = "fetch"
    /\ WhileCondition(has_next_page)
    /\ requests' = Append(requests, next_page)
    /\ has_next_page' = FALSE
    /\ UNCHANGED <<pc, starttime, endtime, bucket_hours, observations_by_mission,
                   accumulated_observations, next_page, mission_idx,
                   curtime, start_index, i, calls, files, diag, responses>>

\* lines 33-34: the request answered with a non-success status, raise_for_status raises
RaiseForStatus ==
    /\ pc = "fetch"
    /\ WhileCondition(has_next_page)
    /\ requests' = Append(requests, next_page)
    /\ pc' = "aborted"
    /\ UNCHANGED <<starttime, endtime, bucket_hours, observations_by_mission,
                   accumulated_observations, has_next_page, next_page, mission_idx,
                   curtime, start_index, i, calls, files, diag, responses>>

\* lines 231-233
NoObservationsFound ==
    /\ pc = "fetch"
    /\ ~WhileCondition(has_next_page)
    /\ NoMissions(observations_by_mission)
    /\ diag' = [diag EXCEPT !.no_observations = @ + 1]
    /\ pc' = "done"
    /\ UNCHANGED <<starttime, endtime, bucket_hours, observations_by_mission,
                   accumulated_observations, has_next_page, next_page, mission_idx,
                   curtime, start_index, i, calls, files, requests, responses>>

\* line 235: the for loop over the groups is entered
BeginOutput ==
    /\ pc = "fetch"
    /\ ~WhileCondition(has_next_page)
    /\ ~NoMissions(observations_by_mission)
    /\ pc' = "missions"
    /\ mission_idx' = 1
    /\ UNCHANGED <<starttime, endtime, bucket_hours, observations_by_mission,
                   accumulated_observations, has_next_page, next_page,
                   curtime, start_index, i, calls, files, diag, requests, responses>>

\* ---------------------------------------------------------------- output_data

\* Segment with the end of the slice one too low
SegmentDropsLast(l, a, b) == Slice(l, a, b - 1)

\* lines 142 and 150: the slice accumulated_observations[a:b] handed to convert_to_netcdf
Segment(l, a, b) == Slice(l, a, b)

\* lines 42-123: the call convert_to_netcdf(data, mission_name, curtime, bucket_hours);
\* an empty data set has no mission_name column and the call raises. The call made
\* at line 152 is recorded as the trailing one, those made at line 144 are not
ConvertToNetcdf(data, mission_name, cur, next_pc) ==
    IF data = <<>>
    THEN /\ pc' = "crashed"
         /\ UNCHANGED <<calls, files>>
    ELSE LET output_file == OutputFile(data, cur)
         IN /\ pc' = next_pc
            /\ calls' = Append(calls, [data |-> data, mission_name |-> mission_name,
                                       curtime |-> cur, output_file |-> output_file,
                                       trailing |-> (next_pc = "missions")])
            /\ files' = [f \in DOMAIN files \cup {output_file} |->
                           IF f = output_file THEN data ELSE files[f]]

\* lines 235-139: the next group is bound to accumulated_observations, output_data
\* sorts it in place and sets curtime; an empty list raises at index 0
CallOutputData ==
    /\ pc = "missions"
    /\ mission_idx <= Len(observations_by_mission)
    /\ LET sorted == SortByTimestamp(observations_by_mission[mission_idx].value)
       IN /\ accumulated_observations' = sorted
          /\ observations_by_mission' = [observations_by_mission EXCEPT ![mission_idx].value = sorted]
          /\ IF sorted = <<>>
             THEN /\ pc' = "crashed"
                  /\ UNCHANGED <<curtime, diag>>
             ELSE /\ pc' = "scan"
                  /\ curtime' = AlignedStart(sorted[1].timestamp, bucket_hours)
                  /\ diag' = [diag EXCEPT !.before_starttime =
                                @ + (IF sorted[1].timestamp < starttime THEN 1 ELSE 0)]
    /\ start_index' = 0
    /\ i' = 0
    /\ UNCHANGED <<starttime, endtime, bucket_hours, has_next_page, next_page, mission_idx,
                   calls, files, requests, responses>>

\* lines 140-147: an iteration of the scan whose test holds
ScanEmit ==
    /\ pc = "scan"
    /\ i < Len(accumulated_observations)
    /\ CrossesBucket(accumulated_observations[i + 1].timestamp, curtime, bucket_hours)
    /\ ConvertToNetcdf(Segment(accumulated_observations, start_index, i),
                       observations_by_mission[mission_idx].key, curtime, "scan")
    /\ start_index' = i
    /\ curtime' = curtime + TimedeltaSeconds(bucket_hours)
    /\ i' = i + 1
    /\ UNCHANGED <<starttime, endtime, bucket_hours, observations_by_mission,
                   accumulated_observations, has_next_page, next_page, mission_idx,
                   diag, requests, responses>>

\* lines 140-141: an iteration of the scan whose test fails
ScanSkip ==
    /\ pc = "scan"
    /\ i < Len(accumulated_observations)
    /\ ~CrossesBucket(accumulated_observations[i + 1].timestamp, curtime, bucket_hours)
    /\ i' = i + 1
    /\ UNCHANGED <<pc, starttime, endtime, bucket_hours, observations_by_mission,
                   accumulated_observations, has_next_page, next_page, mission_idx,
                   curtime, start_index, calls, files, diag, requests, responses>>

\* lines 149-152: the rest of the list is written and output_data returns
TrailingSegment ==
    /\ pc = "scan"
    /\ i = Len(accumulated_observations)
    /\ ConvertToNetcdf(Segment(accumulated_observations, start_index, Len(accumulated_observations)),
                       observations_by_mission[mission_idx].key, curtime, "missions")
    /\ mission_idx' = mission_idx + 1
    /\ UNCHANGED <<starttime, endtime, bucket_hours, observations_by_mission,
                   accumulated_observations, has_next_page, next_page,
                   curtime, start_index, i, diag, requests, responses>>

\* line 235-236: the for loop is exhausted and main returns
MainReturn ==
    /\ pc = "missions"
    /\ mission_idx > Len(observations_by_mission)
    /\ pc' = "done"
    /\ UNCHANGED <<starttime, endtime, bucket_hours, observations_by_mission,
                   accumulated_observations, has_next_page, next_page, mission_idx,
                   curtime, start_index, i, calls, files, diag, requests, responses>>

Next ==
    \/ FetchPage
    \/ RaiseForStatus
    \/ NoObservationsFound
    \/ BeginOutput
    \/ CallOutputData
    \/ ScanEmit
    \/ ScanSkip
    \/ TrailingSegment
    \/ MainReturn

Spec == Init /\ [][Next]_vars

\* ---------------------------------------------------------------- bucketing alone

BucketMission == W1594

BucketLists ==
    UNION { { [k \in 1..n |-> [mission_name |-> BucketMission, timestamp |-> ts[k], id |-> k]] :
              ts \in [1..n -> Timestamps] } : n \in 1..MaxBucketObs }

\* main after its paging loop: one page was served, all of it one mission's observations
InitBucket ==
    /\ pc = "missions"
    /\ starttime \in StartTimes
    /\ endtime = EndTime
    /\ bucket_hours \in BucketHoursChoices
    /\ \E l \in BucketLists :
        /\ observations_by_mission = << [key |-> BucketMission, value |-> l] >>
        /\ accumulated_observations = l
        /\ responses = << [observations |-> l, has_next_page |-> FALSE, next_page |-> Null] >>
    /\ has_next_page = FALSE
    /\ next_page = FirstUrl(starttime, endtime)
    /\ mission_idx = 1
    /\ curtime = 0
    /\ start_index = 0
    /\ i = 0
    /\ calls = <<>>
    /\ files = <<>>
    /\ diag = ZeroDiag
    /\ requests = << FirstUrl(starttime, endtime) >>

NextBucket ==
    \/ CallOutputData
    \/ ScanEmit
    \/ ScanSkip
    \/ TrailingSegment
    \/ MainReturn

SpecBucket == InitBucket /\ [][NextBucket]_vars

\* ---------------------------------------------------------------- properties

\* what the API served of mission m, in arrival order
GroupInput(m) == SelectSeq(Fetched, LAMBDA o : o.mission_name = m)

\* the calls made for mission m, and the observations they wrote, in order
CallsOf(m) == SelectSeq(calls, LAMBDA c : c.mission_name = m)

Written(m) == LET cs == CallsOf(m) IN Concat([k \in 1..Len(cs) |-> cs[k].data])

\* output_data has returned for the g-th group
Finished(g) == g < mission_idx

\* output_data is running on the g-th group
Running(g) == pc = "scan" /\ g = mission_idx

\* C1: every segment written before the trailing one holds only observations
\* with curtime <= t < curtime + w, for the curtime it was written with; an
\* observation at exactly curtime + w is not in it.
C1_SegmentWithinBucket ==
    \A k \in 1..Len(calls) :
        ~calls[k].trailing =>
            \A j \in 1..Len(calls[k].data) :
                /\ calls[k].curtime <= calls[k].data[j].timestamp
                /\ calls[k].data[j].timestamp < calls[k].curtime + BucketSeconds(bucket_hours)

\* C2: for every bucket_hours, the curtime values of a mission's successive
\* calls start at earliest - (earliest mod w) and each is exactly w more than
\* the one before, so each is a multiple of w.
C2_CurtimeGrid ==
    \A g \in 1..Len(observations_by_mission) :
        LET cs == CallsOf(observations_by_mission[g].key)
            input == GroupInput(observations_by_mission[g].key)
            w == BucketSeconds(bucket_hours)
        IN \A k \in 1..Len(cs) :
            /\ cs[k].curtime % w = 0
            /\ k = 1 => \E e \in 1..Len(input) :
                           /\ \A j \in 1..Len(input) : input[e].timestamp <= input[j].timestamp
                           /\ cs[1].curtime = input[e].timestamp - (input[e].timestamp % w)
            /\ k > 1 => cs[k].curtime = cs[k - 1].curtime + w

\* C3: the segments written for a mission are disjoint contiguous slices of
\* its list sorted by timestamp (ties in arrival order), in order of time, and
\* once output_data has returned they hold every observation exactly once.
C3_SegmentsPartition ==
    \A g \in 1..Len(observations_by_mission) :
        LET input == GroupInput(observations_by_mission[g].key)
            written == Written(observations_by_mission[g].key)
        IN /\ \A j, k \in 1..Len(written) :
                j < k => /\ written[j].timestamp <= written[k].timestamp
                         /\ written[j].timestamp = written[k].timestamp
                                => written[j].id < written[k].id
                         /\ written[j] # written[k]
           /\ Range(written) \subseteq Range(input)
           /\ Finished(g) => /\ Len(written) = Len(input)
                             /\ Range(written) = Range(input)
           /\ (Finished(g) \/ Running(g))
                => written = SubSeq(observations_by_mission[g].value, 1, Len(written))
           /\ ~(Finished(g) \/ Running(g)) => written = <<>>

\* C3's case: an unsorted list was written as several segments, one of them
\* of more than one observation
C3_Witness ==
    /\ pc = "done"
    /\ Len(calls) >= 2
    /\ \E k \in 1..Len(calls) : Len(calls[k].data) >= 2
    /\ GroupInput(observations_by_mission[1].key) # observations_by_mission[1].value

\* C4: every segment, the trailing one included, is written with curtime the
\* epoch-aligned start of the bucket of its first observation.
C4_CurtimeIsBucketOfFirst ==
    \A k \in 1..Len(calls) :
        calls[k].curtime = calls[k].data[1].timestamp
                             - (calls[k].data[1].timestamp % BucketSeconds(bucket_hours))

\* C6: any two segments written in one run have different file names.
C6_DistinctFiles ==
    \A j, k \in 1..Len(calls) : j < k => calls[j].output_file # calls[k].output_file

\* the last page the API answered with
LastPage == responses[Len(responses)]

\* a request was answered with a non-success status
RequestFailed == Len(requests) > Len(responses)

NoOutput == calls = <<>> /\ DOMAIN files = {}

\* C5: output_data and convert_to_netcdf are not called, and no file is
\* written, before the paging loop has received a page with has_next_page
\* false; and once a request has failed the run is aborted with no file written.
C5_OutputOnlyAfterLastPage ==
    /\ (pc \in {"missions", "scan", "crashed"} \/ ~NoOutput)
          => /\ responses # <<>>
             /\ ~LastPage.has_next_page
             /\ ~RequestFailed
    /\ RequestFailed => pc = "aborted" /\ NoOutput

\* C5's case: a request fails after pages with observations were accumulated
C5_Witness ==
    /\ pc = "aborted"
    /\ Len(responses) >= 1
    /\ observations_by_mission # <<>>
    /\ NoOutput

\* the g-th group was sorted in place by output_data
Sorted(g) == Finished(g) \/ (pc \in {"scan", "crashed"} /\ g = mission_idx)

\* C7: an observation without mission_name gets a diagnostic and is in no
\* group and in no segment, and the run goes on; every other observation is
\* in its mission's group, in page-arrival order until output_data sorts the group.
C7_UnnamedDropped ==
    /\ diag.no_mission_name = Len(Fetched) - Len(Named(Fetched))
    /\ Absent \notin Keys(observations_by_mission)
    /\ Keys(observations_by_mission) = { o.mission_name : o \in Range(Named(Fetched)) }
    /\ \A g \in 1..Len(observations_by_mission) :
          /\ \A h \in 1..Len(observations_by_mission) :
                observations_by_mission[h].key = observations_by_mission[g].key => h = g
          /\ observations_by_mission[g].value =
                IF Sorted(g)
                THEN SortByTimestamp(GroupInput(observations_by_mission[g].key))
                ELSE GroupInput(observations_by_mission[g].key)
    /\ \A k \in 1..Len(calls) : \A o \in Range(calls[k].data) : o.mission_name # Absent
    /\ pc = "aborted" => RequestFailed
    /\ pc # "crashed"

\* C7's case: a page's first observation has no mission_name, the one after
\* it on the same page and one on the next page have, and the run completed
C7_Witness ==
    /\ pc = "done"
    /\ Len(responses) = 2
    /\ Len(responses[1].observations) >= 2
    /\ responses[1].observations[1].mission_name = Absent
    /\ responses[1].observations[2].mission_name # Absent
    /\ Named(responses[2].observations) # <<>>
    /\ calls # <<>>

\* C8: when the pages are exhausted and no observation with a mission_name
\* was accumulated, main prints the notice and returns, and convert_to_netcdf
\* is never called and no file is written.
C8_NoObservationsNoFiles ==
    Named(Fetched) = <<>> =>
        /\ NoOutput
        /\ pc \in {"fetch", "done", "aborted"}
        /\ pc = "done" => diag.no_observations = 1
        /\ (pc = "fetch" /\ ~has_next_page) => ENABLED NoObservationsFound /\ ~ENABLED BeginOutput

\* C8's case: every observation served lacked mission_name and main returned
C8_Witness ==
    /\ pc = "done"
    /\ Fetched # <<>>
    /\ Named(Fetched) = <<>>
    /\ diag.no_observations = 1

\* C9: one request per page; the loop goes on while pages report
\* has_next_page, an empty page included, and each follow-up URL is the page's
\* next_page with min_time and max_time appended again; at the first page
\* that reports no next page the loop makes no further request and is left.
C9_Paging ==
    /\ Len(requests) = Len(responses) + (IF pc = "aborted" THEN 1 ELSE 0)
    /\ requests # <<>> => requests[1] = FirstUrl(starttime, endtime)
    /\ \A k \in 2..Len(requests) :
          /\ responses[k - 1].has_next_page
          /\ requests[k].link = responses[k - 1].next_page
          /\ <<"min_time", starttime>> \in Range(requests[k].query)
          /\ <<"max_time", endtime>> \in Range(requests[k].query)
    /\ (responses # <<>> /\ LastPage.has_next_page)
          => /\ pc \in {"fetch", "aborted"}
             /\ pc = "fetch" => ENABLED FetchPage /\ ~ENABLED NoObservationsFound /\ ~ENABLED BeginOutput
    /\ (responses # <<>> /\ ~LastPage.has_next_page)
          => /\ Len(requests) = Len(responses)
             /\ pc = "fetch" => /\ ~ENABLED FetchPage
                                /\ ~ENABLED RaiseForStatus
                                /\ ENABLED NoObservationsFound \/ ENABLED BeginOutput
    /\ pc \notin {"fetch", "aborted"} => responses # <<>> /\ ~LastPage.has_next_page
    /\ pc \in {"fetch", "aborted"} => Len(accumulated_observations) = Len(Named(Fetched))

\* C9's case: an empty first page with has_next_page true, and a second page
\* whose observations were accumulated and written
C9_Witness ==
    /\ pc = "done"
    /\ Len(responses) = 2
    /\ responses[1].observations = <<>>
    /\ responses[1].has_next_page
    /\ Named(responses[2].observations) # <<>>
    /\ Len(accumulated_observations) = Len(Named(responses[2].observations))
    /\ calls # <<>>

\* C10: every segment passed to convert_to_netcdf, the trailing one included,
\* holds at least one observation, and every group main built does, so the
\* accesses at index 0 never fail.
C10_SegmentsNonEmpty ==
    /\ \A k \in 1..Len(calls) : Len(calls[k].data) >= 1
    /\ \A g \in 1..Len(observations_by_mission) : Len(observations_by_mission[g].value) >= 1
    /\ pc # "crashed"

\* C10's case: a mission was written as a segment closed by the scan and a
\* trailing segment, and main returned
C10_Witness ==
    /\ pc = "done"
    /\ \E k \in 1..Len(calls) : ~calls[k].trailing
    /\ \E k \in 1..Len(calls) : calls[k].trailing

====
